---- MODULE Spec2Model ----
(***************************************************************************)
(* Model of format_fat32 (src/linux/fat32.c): geometry selection, FAT size *)
(* arithmetic, BPB patching and the six seek-then-write steps.             *)
(*                                                                         *)
(* Sector counts and byte offsets exceed the range of a machine integer of *)
(* the model checker, so every wide integer is kept as four 16-bit limbs,  *)
(* least significant first: <<l0, l1, l2, l3>> = l0 + l1*2^16 + l2*2^32 +  *)
(* l3*2^48.  A uint32_t is a wide integer whose limbs l2 and l3 are 0.     *)
(***************************************************************************)
EXTENDS Integers, Sequences, FiniteSets, TLC

VARIABLES DskSize, cluster_size, label, pc, ret, BPB_SecPerClus,
          BPB_TotSec32, BPB_FATSz32, fat32_bpb, messages, writes, syncs

vars == <<DskSize, cluster_size, label, pc, ret, BPB_SecPerClus,
          BPB_TotSec32, BPB_FATSz32, fat32_bpb, messages, writes, syncs>>

(* ------------------------------ bounds --------------------------------- *)
CapDelta == 2
MaxLabelLen == 13
LabelShifts == 2

(* ------------------------ wide-integer arithmetic ---------------------- *)
B == 256 * 256

FromInt(n) == <<n % B, n \div B, 0, 0>>

AddN(a, b) ==
    LET s0 == a[1] + b[1]
        s1 == a[2] + b[2] + (s0 \div B)
        s2 == a[3] + b[3] + (s1 \div B)
        s3 == a[4] + b[4] + (s2 \div B)
    IN  <<s0 % B, s1 % B, s2 % B, s3 % B>>

SubN(a, b) ==
    LET d0 == a[1] - b[1]
        c0 == IF d0 < 0 THEN 1 ELSE 0
        d1 == a[2] - b[2] - c0
        c1 == IF d1 < 0 THEN 1 ELSE 0
        d2 == a[3] - b[3] - c1
        c2 == IF d2 < 0 THEN 1 ELSE 0
        d3 == a[4] - b[4] - c2
    IN  <<d0 % B, d1 % B, d2 % B, d3 % B>>

MulSmall(a, m) ==
    LET p0 == a[1] * m
        p1 == a[2] * m + (p0 \div B)
        p2 == a[3] * m + (p1 \div B)
        p3 == a[4] * m + (p2 \div B)
    IN  <<p0 % B, p1 % B, p2 % B, p3 % B>>

DivSmall(a, d) ==
    LET q3 == a[4] \div d
        r3 == a[4] % d
        n2 == r3 * B + a[3]
        q2 == n2 \div d
        r2 == n2 % d
        n1 == r2 * B + a[2]
        q1 == n1 \div d
        r1 == n1 % d
        n0 == r1 * B + a[1]
        q0 == n0 \div d
    IN  <<q0, q1, q2, q3>>

LtN(a, b) ==
    \/ a[4] < b[4]
    \/ a[4] = b[4] /\ a[3] < b[3]
    \/ a[4] = b[4] /\ a[3] = b[3] /\ a[2] < b[2]
    \/ a[4] = b[4] /\ a[3] = b[3] /\ a[2] = b[2] /\ a[1] < b[1]

LeN(a, b) == ~LtN(b, a)

U32(a) == <<a[1], a[2], 0, 0>>

UnassignedN == <<-1, -1, -1, -1>>
(* an uint8_t local that has not been assigned: no byte value *)
Unassigned == 255 + 1
(* format_fat32 has not returned yet *)
NotReturned == 1

(* UINT32_MAX and the literal 0xFFFFFFFF of the automatic ladder *)
UINT32_MAX == <<65535, 65535, 0, 0>>

(* ------------------------------ templates ------------------------------ *)
Zeros(n) == [i \in 1..n |-> 0]

fat32_bpb_template ==
    << 235, 0, 144,
       82, 85, 70, 85, 83, 76, 0, 0,
       0, 2,
       0,
       32, 0,
       2,
       0, 0,
       0, 0,
       248,
       0, 0,
       255, 255,
       255, 255,
       0, 0, 0, 0,
       0, 0, 0, 0,
       0, 0, 0, 0,
       0, 0,
       0, 0,
       2, 0, 0, 0,
       1, 0,
       6, 0,
       0, 0, 0, 0, 0, 0, 0, 0, 0, 0, 0, 0,
       128,
       0,
       41,
       190, 186, 254, 202,
       78, 79, 32, 78, 65, 77, 69, 32, 32, 32, 32,
       70, 65, 84, 51, 50, 32, 32, 32 >>
    \o Zeros(420) \o << 85, 170 >>

fat32_fsi ==
    << 82, 82, 97, 65 >> \o Zeros(480)
    \o << 114, 114, 65, 97 >>
    \o << 255, 255, 255, 255 >>
    \o << 255, 255, 255, 255 >>
    \o Zeros(12)
    \o << 0, 0, 85, 170 >>

fat32_fat == << 248, 255, 255, 15,  255, 255, 255, 15,  255, 255, 255, 15 >>

BPB_ResvdSecCnt == 32
BPB_NumFATs == 2

BPB_SEC_PER_CLUS_OFFSET == 13
BPB_TOT_SEC_32_OFFSET == 32
BPB_FAT_SZ_32_OFFSET == 36
BPB_LABEL_OFFSET == 71

(* ------------------------------- inputs -------------------------------- *)
ExplicitCodes == {"BS_512B", "BS_1024B", "BS_2048B", "BS_4096B",
                  "BS_8192B", "BS_16384B", "BS_32768B"}
OtherCodes == {"OTHER_A", "OTHER_B"}

(* capacities around every threshold of the code, in 512-byte sectors *)
CapBases ==
    { FromInt(0), FromInt(32), FromInt(50000), FromInt(66600),
      FromInt(100000), FromInt(532480), FromInt(16777216),
      FromInt(33554432), FromInt(67108864),
      FromInt(1082126336),            \* 8388576 * 129 + 32
      <<0, 32768, 0, 0>>,             \* 2^31
      <<57376, 65535, 0, 0>>,         \* 2^32 - 8160
      <<65440, 65535, 0, 0>>,         \* 2^32 - 96
      <<65535, 65535, 0, 0>>,         \* 0xFFFFFFFF
      <<61952, 10757, 1, 0>>,         \* 5,000,000,000
      <<34464, 1, 2, 0>> }            \* 2^33 + 100,000

Capacities ==
    { AddN(b, FromInt(d)) : b \in CapBases, d \in 0..CapDelta }
    \cup { SubN(b, FromInt(d)) : b \in { x \in CapBases : LeN(FromInt(CapDelta), x) },
                                 d \in 0..CapDelta }

(* a C string: n bytes that are not 0, the terminator, and whatever memory
   follows the terminator *)
LabelChars(n, s) == [i \in 1..n |-> 65 + ((s + 7 * (i - 1)) % 26)]
LabelTails == { <<0>>, <<0, 88, 0>> }
Labels == { LabelChars(n, s) \o t : n \in 0..MaxLabelLen, s \in 0..(LabelShifts - 1),
                                    t \in LabelTails }
FewLabels == { <<84, 69, 83, 84, 0>>, LabelChars(12, 0) \o <<0>> }
FewCapacities == { FromInt(50000), FromInt(100000), FromInt(1082126336),
                   <<61952, 10757, 1, 0>> }

(* ------------------------------ functions ------------------------------ *)
RECURSIVE strlenFrom(_, _)
strlenFrom(s, i) == IF s[i] = 0 THEN 0 ELSE 1 + strlenFrom(s, i + 1)
strlen(s) == strlenFrom(s, 1)

(* the switch on cluster_size: the sectors per cluster of an explicit code,
   Unassigned for the default branch *)
ExplicitSecPerClus(cs) ==
    CASE cs = "BS_512B"   -> 1
      [] cs = "BS_1024B"  -> 2
      [] cs = "BS_2048B"  -> 4
      [] cs = "BS_4096B"  -> 8
      [] cs = "BS_8192B"  -> 16
      [] cs = "BS_16384B" -> 32
      [] cs = "BS_32768B" -> 64
      [] OTHER            -> Unassigned

AutoTooSmall(c) == LtN(c, FromInt(66600))

(* the ladder with its second threshold off by one (<= for <) *)
AutoLadder_offbyone(c) ==
    IF LeN(c, FromInt(532480)) THEN {1}
    ELSE IF LtN(c, FromInt(16777216)) THEN {8}
    ELSE IF LtN(c, FromInt(33554432)) THEN {16}
    ELSE IF LtN(c, FromInt(67108864)) THEN {32}
    ELSE IF LtN(c, UINT32_MAX) THEN {64}
    ELSE 0..255

(* the ladder with its last bound written as the limit of the size check *)
AutoLadder_lastbound(c) ==
    IF LtN(c, FromInt(532480)) THEN {1}
    ELSE IF LtN(c, FromInt(16777216)) THEN {8}
    ELSE IF LtN(c, FromInt(33554432)) THEN {16}
    ELSE IF LtN(c, FromInt(67108864)) THEN {32}
    ELSE IF LtN(c, SubN(UINT32_MAX, FromInt(1))) THEN {64}
    ELSE 0..255

(* the values BPB_SecPerClus can hold after the if/else-if ladder; when no
   branch matches the variable keeps its indeterminate initial content *)
AutoLadder(c) ==
    IF LtN(c, FromInt(532480)) THEN {1}
    ELSE IF LtN(c, FromInt(16777216)) THEN {8}
    ELSE IF LtN(c, FromInt(33554432)) THEN {16}
    ELSE IF LtN(c, FromInt(67108864)) THEN {32}
    ELSE IF LtN(c, UINT32_MAX) THEN {64}
    ELSE 0..255

(* the size check done on the value already narrowed to 32 bits *)
TooLarge_narrowed(c) == LtN(SubN(UINT32_MAX, FromInt(1)), U32(c))

TooLarge(c) == LtN(SubN(UINT32_MAX, FromInt(1)), c)

TmpVal1(tot) == U32(SubN(tot, FromInt(BPB_ResvdSecCnt)))
TmpVal2(spc) == ((256 * spc) + BPB_NumFATs) \div 2
FATSz32(tot, spc) ==
    DivSmall(U32(AddN(TmpVal1(tot), FromInt(TmpVal2(spc) - 1))), TmpVal2(spc))

(* the four bytes of a uint32_t, least significant first *)
LEBytes(n) == << n[1] % 256, n[1] \div 256, n[2] % 256, n[2] \div 256 >>

PutLE32(buf, off, n) ==
    [i \in 1..Len(buf) |->
        IF i - 1 >= off /\ i - 1 < off + 4 THEN LEBytes(n)[i - off] ELSE buf[i]]

(* the label loop: for (i = 0; i < 11; i++) with the inner zero fill *)
LabelLimit == 11

(* the inner loop missing: the rest of the field keeps the template *)
ZeroFill_none(buf, i) == buf

ZeroFill(buf, i) ==
    [j \in 1..Len(buf) |->
        IF j - 1 >= BPB_LABEL_OFFSET + i /\ j - 1 < BPB_LABEL_OFFSET + LabelLimit
        THEN 0 ELSE buf[j]]

RECURSIVE LabelLoop(_, _, _)
LabelLoop(buf, lbl, i) ==
    IF i < LabelLimit
    THEN LET b1 == [buf EXCEPT ![BPB_LABEL_OFFSET + i + 1] = lbl[i + 1]]
         IN  IF lbl[i + 1] = 0
             THEN ZeroFill(b1, i)
             ELSE LabelLoop(b1, lbl, i + 1)
    ELSE buf

LabelWarning(lbl) == strlen(lbl) > 11

PatchBPB(buf, spc, tot, fsz, lbl) ==
    LET b1 == [buf EXCEPT ![BPB_SEC_PER_CLUS_OFFSET + 1] = spc]
        b2 == PutLE32(b1, BPB_TOT_SEC_32_OFFSET, tot)
        b3 == PutLE32(b2, BPB_FAT_SZ_32_OFFSET, fsz)
    IN  LabelLoop(b3, lbl, 0)

(* the offset argument of the sixth SEEKNWRITE, an unsigned 32-bit product *)
SecondFatOffset(fsz) ==
    U32(MulSmall(U32(AddN(FromInt(BPB_ResvdSecCnt), fsz)), 512))

NumWrites == 6

(* the backup sectors written at sector 7 and 6 instead of 6 and 7 *)
WriteOffset_swapped(k, fsz) ==
    CASE k = 1 -> FromInt(0)
      [] k = 2 -> FromInt(512)
      [] k = 3 -> FromInt(3584)
      [] k = 4 -> FromInt(3072)
      [] k = 5 -> FromInt(BPB_ResvdSecCnt * 512)
      [] k = 6 -> SecondFatOffset(fsz)

WriteOffset(k, fsz) ==
    CASE k = 1 -> FromInt(0)
      [] k = 2 -> FromInt(512)
      [] k = 3 -> FromInt(3072)
      [] k = 4 -> FromInt(3584)
      [] k = 5 -> FromInt(BPB_ResvdSecCnt * 512)
      [] k = 6 -> SecondFatOffset(fsz)

WriteData(k, bpb) ==
    CASE k = 1 -> SubSeq(bpb, 1, 512)
      [] k = 2 -> SubSeq(fat32_fsi, 1, 512)
      [] k = 3 -> SubSeq(bpb, 1, 512)
      [] k = 4 -> SubSeq(fat32_fsi, 1, 512)
      [] k = 5 -> SubSeq(fat32_fat, 1, 12)
      [] k = 6 -> SubSeq(fat32_fat, 1, 12)

(* a block device accepts a write only inside its capacity *)
InsideDevice(off, size, cap) ==
    LeN(AddN(off, FromInt(size)), MulSmall(cap, 512))

(* ------------------------------ the device ----------------------------- *)
Old == -1

Covers(w, addr) ==
    /\ LeN(w.off, addr)
    /\ LtN(addr, AddN(w.off, FromInt(Len(w.data))))

(* the byte the device holds at addr after the writes of log ws *)
RECURSIVE ByteAt(_, _, _)
ByteAt(ws, n, addr) ==
    IF n = 0 THEN Old
    ELSE IF Covers(ws[n], addr)
         THEN ws[n].data[SubN(addr, ws[n].off)[1] + 1]
         ELSE ByteAt(ws, n - 1, addr)

ReadBack(ws, off, size) ==
    [i \in 1..size |-> ByteAt(ws, Len(ws), AddN(off, FromInt(i - 1)))]

(* ------------------------------- actions ------------------------------- *)
Init ==
    /\ \/ /\ DskSize \in Capacities
          /\ cluster_size \in ExplicitCodes \cup OtherCodes
          /\ label \in FewLabels
       \/ /\ DskSize \in FewCapacities
          /\ cluster_size \in {"BS_512B", "OTHER_A"}
          /\ label \in Labels
    /\ pc = "ioctl"
    /\ ret = NotReturned
    /\ BPB_SecPerClus = Unassigned
    /\ BPB_TotSec32 = UnassignedN
    /\ BPB_FATSz32 = UnassignedN
    /\ fat32_bpb = fat32_bpb_template
    /\ messages = <<>>
    /\ writes = <<>>
    /\ syncs = 0

Return(v) == pc' = "done" /\ ret' = v

(* a failed seek or write ignored: the sequence goes on to the flush *)
WriteFailed_ignored == pc' = "sync" /\ UNCHANGED ret

(* a failed seek or write ends the call with a failure *)
WriteFailed == Return(-1)

(* ioctl(BLKGETSIZE) and the UINT32_MAX - 1 check *)
GetSize ==
    /\ pc = "ioctl"
    /\ \E ok \in BOOLEAN :
         IF ~ok
         THEN Return(-1) /\ UNCHANGED messages
         ELSE IF TooLarge(DskSize)
              THEN Return(-1) /\ messages' = Append(messages, "Volume to big for FAT32!")
              ELSE pc' = "switch" /\ UNCHANGED <<ret, messages>>
    /\ UNCHANGED <<DskSize, cluster_size, label, BPB_SecPerClus, BPB_TotSec32,
                   BPB_FATSz32, fat32_bpb, writes, syncs>>

(* switch (cluster_size) *)
SelectCluster ==
    /\ pc = "switch"
    /\ IF ExplicitSecPerClus(cluster_size) # Unassigned
       THEN /\ BPB_SecPerClus' = ExplicitSecPerClus(cluster_size)
            /\ pc' = "fatsz"
            /\ UNCHANGED <<ret, messages>>
       ELSE IF AutoTooSmall(DskSize)
            THEN /\ Return(-1)
                 /\ messages' = messages \o <<"Autosetting cluster size.",
                                              "ERROR: Volume is too small!">>
                 /\ UNCHANGED BPB_SecPerClus
            ELSE /\ BPB_SecPerClus' \in AutoLadder(DskSize)
                 /\ pc' = "fatsz"
                 /\ messages' = Append(messages, "Autosetting cluster size.")
                 /\ UNCHANGED ret
    /\ UNCHANGED <<DskSize, cluster_size, label, BPB_TotSec32, BPB_FATSz32,
                   fat32_bpb, writes, syncs>>

(* BPB_TotSec32, TmpVal1, TmpVal2, BPB_FATSz32 *)
ComputeFatSize ==
    /\ pc = "fatsz"
    /\ BPB_TotSec32' = U32(DskSize)
    /\ BPB_FATSz32' = FATSz32(U32(DskSize), BPB_SecPerClus)
    /\ pc' = "patch"
    /\ UNCHANGED <<DskSize, cluster_size, label, ret, BPB_SecPerClus,
                   fat32_bpb, messages, writes, syncs>>

(* STEP 1/4 .. STEP 4/4 *)
Patch ==
    /\ pc = "patch"
    /\ fat32_bpb' = PatchBPB(fat32_bpb, BPB_SecPerClus, BPB_TotSec32,
                             BPB_FATSz32, label)
    /\ messages' = IF LabelWarning(label)
                   THEN Append(messages, "WARNING: Label is larger than allowed 11 chars. Will truncate.")
                   ELSE messages
    /\ pc' = "write"
    /\ UNCHANGED <<DskSize, cluster_size, label, ret, BPB_SecPerClus,
                   BPB_TotSec32, BPB_FATSz32, writes, syncs>>

(* one SEEKNWRITE: the next one of the six, in program order *)
SeekNWrite ==
    /\ pc = "write"
    /\ LET k == Len(writes) + 1
           off == WriteOffset(k, BPB_FATSz32)
           data == WriteData(k, fat32_bpb)
       IN  \/ /\ InsideDevice(off, Len(data), DskSize)
              /\ writes' = Append(writes, [off |-> off, data |-> data])
              /\ pc' = IF k = NumWrites THEN "sync" ELSE "write"
              /\ UNCHANGED ret
           \/ /\ WriteFailed
              /\ UNCHANGED writes
    /\ UNCHANGED <<DskSize, cluster_size, label, BPB_SecPerClus, BPB_TotSec32,
                   BPB_FATSz32, fat32_bpb, messages, syncs>>

Sync ==
    /\ pc = "sync"
    /\ syncs' = syncs + 1
    /\ pc' = "return"
    /\ UNCHANGED <<DskSize, cluster_size, label, ret, BPB_SecPerClus,
                   BPB_TotSec32, BPB_FATSz32, fat32_bpb, messages, writes>>

ReturnSuccess ==
    /\ pc = "return"
    /\ Return(0)
    /\ UNCHANGED <<DskSize, cluster_size, label, BPB_SecPerClus, BPB_TotSec32,
                   BPB_FATSz32, fat32_bpb, messages, writes, syncs>>

Next ==
    \/ GetSize
    \/ SelectCluster
    \/ ComputeFatSize
    \/ Patch
    \/ SeekNWrite
    \/ Sync
    \/ ReturnSuccess

Spec == Init /\ [][Next]_vars

TypeOK ==
    /\ pc \in {"ioctl", "switch", "fatsz", "patch", "write", "sync", "return", "done"}
    /\ ret \in {NotReturned, 0, -1}
    /\ Len(fat32_bpb) = 512
    /\ Len(fat32_fsi) = 512
    /\ Len(writes) <= NumWrites

(* ---------------------------- properties ------------------------------- *)
Auto == cluster_size \notin ExplicitCodes
Selected == BPB_SecPerClus # Unassigned
Computed == BPB_FATSz32 # UnassignedN
Patched == pc \in {"write", "sync", "return"} \/ (pc = "done" /\ Computed)
InRange(lo, c, hi) == LeN(lo, c) /\ LtN(c, hi)
FieldLE32(buf, off) ==
    << buf[off + 1] + 256 * buf[off + 2], buf[off + 3] + 256 * buf[off + 4], 0, 0 >>
SecPerClusValues == {1, 2, 4, 8, 16, 32, 64}

(* C1: under automatic policy a capacity below 66,600 sectors fails with
   the too-small error and no write; otherwise the sectors per cluster are
   1, 8, 16, 32, 64 for the brackets that start at 66,600, 532,480,
   16,777,216, 33,554,432 and 67,108,864 and end below 0xFFFFFFFF *)
C1_AutoBrackets ==
    Auto =>
      /\ LtN(DskSize, FromInt(66600)) =>
            /\ writes = <<>> /\ syncs = 0 /\ ~Selected
            /\ pc \in {"ioctl", "switch", "done"}
            /\ pc = "done" => ret = -1
            /\ (pc = "done" /\ messages # <<>>) =>
                  messages[Len(messages)] = "ERROR: Volume is too small!"
      /\ LeN(FromInt(66600), DskSize) =>
            \A i \in 1..Len(messages) : messages[i] # "ERROR: Volume is too small!"
      /\ (InRange(FromInt(66600), DskSize, <<65535, 65535, 0, 0>>)
             /\ pc \notin {"ioctl", "switch"} /\ messages # <<>>) => Selected
      /\ Selected =>
            /\ InRange(FromInt(66600), DskSize, FromInt(532480)) => BPB_SecPerClus = 1
            /\ InRange(FromInt(532480), DskSize, FromInt(16777216)) => BPB_SecPerClus = 8
            /\ InRange(FromInt(16777216), DskSize, FromInt(33554432)) => BPB_SecPerClus = 16
            /\ InRange(FromInt(33554432), DskSize, FromInt(67108864)) => BPB_SecPerClus = 32
            /\ InRange(FromInt(67108864), DskSize, <<65535, 65535, 0, 0>>) => BPB_SecPerClus = 64

C1_Witness ==
    /\ Auto /\ pc = "done" /\ ret = 0
    /\ DskSize = FromInt(532480) /\ BPB_SecPerClus = 8

(* C2: a capacity above 0xFFFFFFFE fails under every policy before any
   geometry is computed, with no write and no flush *)
C2_TooLargeRejected ==
    LtN(<<65534, 65535, 0, 0>>, DskSize) =>
      /\ pc \in {"ioctl", "done"}
      /\ pc = "done" => ret = -1
      /\ ~Selected /\ ~Computed /\ BPB_TotSec32 = UnassignedN
      /\ fat32_bpb = fat32_bpb_template
      /\ writes = <<>> /\ syncs = 0

C2_Witness ==
    /\ pc = "done" /\ ret = -1
    /\ DskSize = <<61952, 10757, 1, 0>>
    /\ messages = <<"Volume to big for FAT32!">>

(* C3: for every accepted capacity the FAT size patched into bytes 36-39
   is ceil((c - 32) / floor((256 * SecPerClus + 2) / 2)) without any
   wrap modulo 2^32 *)
CeilFatSize(c, spc) ==
    LET entries == (256 * spc + 2) \div 2
    IN  DivSmall(AddN(SubN(c, FromInt(32)), FromInt(entries - 1)), entries)

C3_FatSizeExact ==
    (Patched /\ LeN(FromInt(32), DskSize)) =>
        /\ BPB_FATSz32 = CeilFatSize(DskSize, BPB_SecPerClus)
        /\ FieldLE32(fat32_bpb, 36) = CeilFatSize(DskSize, BPB_SecPerClus)

(* C4: the writes are issued in the order BPB at 0, FSInfo at 512, BPB at
   3072, FSInfo at 3584, FAT at 16384, FAT at the secondary offset; the
   flush comes after all six and success after the flush; a call that
   passed the geometry checks ends in failure only if a write failed *)
ExpectedSize(k) == IF k <= 4 THEN 512 ELSE 12
ExpectedOffset(k) ==
    CASE k = 1 -> FromInt(0)
      [] k = 2 -> FromInt(512)
      [] k = 3 -> FromInt(3072)
      [] k = 4 -> FromInt(3584)
      [] k = 5 -> FromInt(16384)
      [] k = 6 -> SecondFatOffset(BPB_FATSz32)
ExpectedData(k) ==
    CASE k \in {1, 3} -> fat32_bpb
      [] k \in {2, 4} -> fat32_fsi
      [] k \in {5, 6} -> fat32_fat

C4_WriteOrder ==
    /\ \A k \in 1..Len(writes) :
          /\ writes[k].off = ExpectedOffset(k)
          /\ Len(writes[k].data) = ExpectedSize(k)
          /\ writes[k].data = ExpectedData(k)
    /\ Len(writes) <= 6
    /\ syncs \in {0, 1}
    /\ syncs = 1 <=> (Len(writes) = 6 /\ pc \in {"return", "done"})
    /\ ret = 0 => (syncs = 1 /\ pc = "done")
    /\ (pc = "done" /\ Len(writes) = 6) => ret = 0

C4_Witness ==
    /\ pc = "done" /\ ret = 0 /\ Len(writes) = 6 /\ syncs = 1
    /\ DskSize = FromInt(100000) /\ Auto

(* C5: the secondary FAT is written at exactly (32 + F) * 512, as an
   unbounded integer, F being the FAT size in bytes 36-39 of the BPB that
   the same call wrote *)
C5_SecondFatOffsetExact ==
    Len(writes) = 6 =>
        writes[6].off =
            MulSmall(AddN(FromInt(32), FieldLE32(writes[1].data, 36)), 512)

(* C6: after a successful call the six documented locations read back the
   patched BPB, the FSInfo template, the same BPB, the same FSInfo, the FAT
   template and the same FAT template *)
DocumentedOffset(k) ==
    CASE k = 1 -> FromInt(0)
      [] k = 2 -> FromInt(512)
      [] k = 3 -> FromInt(3072)
      [] k = 4 -> FromInt(3584)
      [] k = 5 -> FromInt(16384)
      [] k = 6 -> MulSmall(AddN(FromInt(32), BPB_FATSz32), 512)

C6_RoundTrip ==
    (pc = "done" /\ ret = 0) =>
        \A k \in 1..6 :
            ReadBack(writes, DocumentedOffset(k), ExpectedSize(k)) = ExpectedData(k)

(* C7: the label field at offsets 71-81 holds the first min(len, 11) label
   bytes followed by zeros, nothing from offset 82 on is modified, and the
   truncation warning is emitted exactly when len > 11 *)
LabelLen == CHOOSE n \in 0..(Len(label) - 1) :
                label[n + 1] = 0 /\ \A j \in 1..n : label[j] # 0
TruncationWarning ==
    "WARNING: Label is larger than allowed 11 chars. Will truncate."

C7_LabelField ==
    Patched =>
        LET m == IF LabelLen < 11 THEN LabelLen ELSE 11
        IN  /\ \A i \in 0..10 :
                  fat32_bpb[71 + i + 1] = IF i < m THEN label[i + 1] ELSE 0
            /\ \A off \in 82..511 : fat32_bpb[off + 1] = fat32_bpb_template[off + 1]
            /\ (\E i \in 1..Len(messages) : messages[i] = TruncationWarning)
                  <=> LabelLen > 11

C7_Witness ==
    /\ Patched /\ LabelLen = 5 /\ Len(label) > 6
    /\ fat32_bpb[71 + 5 + 1] = 0 /\ fat32_bpb[71 + 10 + 1] = 0

(* C8: when the k-th seek-then-write fails no later write and no flush is
   issued, the call returns failure, and the regions of steps 1..k-1 keep
   what was written *)
C8_AbortOnFailure ==
    (pc = "done" /\ Patched /\ Len(writes) < 6) =>
        /\ ret = -1
        /\ syncs = 0
        /\ \A j \in 1..Len(writes) :
              ReadBack(writes, ExpectedOffset(j), ExpectedSize(j)) = ExpectedData(j)

C8_Witness ==
    /\ pc = "done" /\ ret = -1 /\ Len(writes) = 3 /\ syncs = 0
    /\ ReadBack(writes, FromInt(3072), 512) = fat32_bpb

(* C9: after patching, byte 13 of the BPB is one of 1, 2, 4, 8, 16, 32, 64
   for every cluster_size argument and every capacity that passed *)
C9_SecPerClusValid ==
    /\ Patched => fat32_bpb[13 + 1] \in SecPerClusValues
    /\ pc \in {"fatsz", "patch"} => BPB_SecPerClus \in SecPerClusValues

C9_Witness ==
    /\ Patched /\ Auto /\ DskSize = <<65534, 65535, 0, 0>>
    /\ fat32_bpb[13 + 1] = 64

(* C10: under automatic policy the layout is self-consistent: FATSz32 >= 1,
   the secondary FAT starts at or after 16384 + FATSz32 * 512, so that the
   six ranges are disjoint, 32 + 2 * FATSz32 <= c, and every written range
   lies inside the device *)
C10_LayoutConsistent ==
    (Auto /\ Patched) =>
        /\ LeN(FromInt(1), BPB_FATSz32)
        /\ LeN(AddN(FromInt(16384), MulSmall(BPB_FATSz32, 512)),
               WriteOffset(6, BPB_FATSz32))
        /\ LeN(AddN(FromInt(32), MulSmall(BPB_FATSz32, 2)), DskSize)
        /\ \A k \in 1..6 :
              LeN(AddN(WriteOffset(k, BPB_FATSz32), FromInt(ExpectedSize(k))),
                  MulSmall(DskSize, 512))

====
